---- MODULE Spec2Model ----
(***************************************************************************)
(* Model of the AppSignals MCP server: the two tools                       *)
(* list_monitored_services and get_service_detail (src/appsignals/         *)
(* server.py) over the pydantic records of src/appsignals/models.py.       *)
(*                                                                         *)
(* A coroutine is suspended only at its `await ctx.<level>(...)` calls;    *)
(* the boto3 calls are synchronous.  A position (pc) names the await the   *)
(* invocation is suspended at, and one action resumes it and runs the code *)
(* up to the next await or to the return.                                  *)
(*                                                                         *)
(* Optional[T] values are sequences of length <= 1: None is << >> and a    *)
(* set value v is << v >>.  A dict from the wire is a function whose       *)
(* domain is the set of keys present.  Times are whole hours counted from  *)
(* datetime.min.                                                           *)
(***************************************************************************)
EXTENDS Integers, Sequences, FiniteSets, TLC

VARIABLES op, args, pc, window, calls, listResp, target, detailResp, exc, partial, ret

vars == <<op, args, pc, window, calls, listResp, target, detailResp, exc, partial, ret>>

-----------------------------------------------------------------------------
(* Optional values and dict access                                          *)

None == << >>

Some(v) == << v >>

IsSet(o) == o # None

Val(o) == o[1]

\* Python truthiness of an Optional[str]: None and "" are falsy
Truthy(o) == IsSet(o) /\ Val(o) # ""

\* Mutant: `is not None` in place of truthiness, an empty list counts
TruthyList_isSet(o) == IsSet(o)

\* Python truthiness of an Optional[list]: None and [] are falsy
TruthyList(o) == IsSet(o) /\ Len(Val(o)) > 0

\* `x or "Unknown"` on an Optional[str]
OrUnknown(o) == IF Truthy(o) THEN Val(o) ELSE "Unknown"

\* f"{value}" of an Optional[str]: None is formatted as the text None
Fmt(o) == IF IsSet(o) THEN Val(o) ELSE "None"

-----------------------------------------------------------------------------
(* Schema layer: models.py                                                  *)

KeyAttributesFields == {"type", "resource_type", "name", "identifier", "environment"}

\* alias_generator = to_pascal, over the field names of models.py
ToPascal(f) ==
    CASE f = "type" -> "Type"
      [] f = "resource_type" -> "ResourceType"
      [] f = "name" -> "Name"
      [] f = "identifier" -> "Identifier"
      [] f = "environment" -> "Environment"
      [] f = "value" -> "Value"
      [] f = "namespace" -> "Namespace"
      [] f = "metric_type" -> "MetricType"
      [] f = "dimensions" -> "Dimensions"
      [] f = "metric_name" -> "MetricName"
      [] f = "account_id" -> "AccountId"
      [] f = "key_attributes" -> "KeyAttributes"
      [] f = "attribute_maps" -> "AttributeMaps"
      [] f = "metric_references" -> "MetricReferences"
      [] f = "log_group_references" -> "LogGroupReferences"
      [] f = "service_summaries" -> "ServiceSummaries"
      [] f = "next_token" -> "NextToken"
      [] f = "service" -> "Service"
      [] f = "start_time" -> "StartTime"
      [] f = "end_time" -> "EndTime"

\* One field of an AWSBaseModel read from a wire dict: by alias, else by field
\* name (populate_by_name = True), else the default None
ReadField(d, f) ==
    IF ToPascal(f) \in DOMAIN d THEN d[ToPascal(f)]
    ELSE IF f \in DOMAIN d THEN d[f]
    ELSE None

\* KeyAttributes(**d)
ParseKeyAttributes(d) == [f \in KeyAttributesFields |-> ReadField(d, f)]

\* Mutant: model_dump(exclude_none = True) without by_alias: the field names
DumpKeyAttributes_byFieldName(ka) ==
    LET setFields == {f \in KeyAttributesFields : IsSet(ka[f])}
    IN  [f \in setFields |-> Val(ka[f])]

\* KeyAttributes.model_dump(by_alias = True, exclude_none = True)
DumpKeyAttributes(ka) ==
    LET setFields == {f \in KeyAttributesFields : IsSet(ka[f])}
        aliasOf == {ToPascal(f) : f \in setFields}
    IN  [a \in aliasOf |-> Val(ka[CHOOSE f \in setFields : ToPascal(f) = a])]

\* MetricDimension: name and value are required strings
DimensionOK(d) == IsSet(ReadField(d, "name")) /\ IsSet(ReadField(d, "value"))

ParseDimension(d) == [name |-> Val(ReadField(d, "name")), value |-> Val(ReadField(d, "value"))]

MetricReferenceOK(m) ==
    LET dims == ReadField(m, "dimensions")
    IN  IsSet(dims) => \A k \in 1..Len(Val(dims)) : DimensionOK(Val(dims)[k])

ParseMetricReference(m) ==
    LET dims == ReadField(m, "dimensions")
    IN  [namespace |-> ReadField(m, "namespace"),
         metric_type |-> ReadField(m, "metric_type"),
         dimensions |-> IF IsSet(dims)
                        THEN Some([k \in 1..Len(Val(dims)) |-> ParseDimension(Val(dims)[k])])
                        ELSE None,
         metric_name |-> ReadField(m, "metric_name"),
         account_id |-> ReadField(m, "account_id")]

MetricReferencesOK(o) == IsSet(o) => \A k \in 1..Len(Val(o)) : MetricReferenceOK(Val(o)[k])

ParseMetricReferences(o) ==
    IF IsSet(o) THEN Some([k \in 1..Len(Val(o)) |-> ParseMetricReference(Val(o)[k])]) ELSE None

\* ServiceSummary(**s)
ServiceSummaryOK(s) == MetricReferencesOK(ReadField(s, "metric_references"))

ParseServiceSummary(s) ==
    LET ka == ReadField(s, "key_attributes")
    IN  [key_attributes |-> IF IsSet(ka) THEN Some(ParseKeyAttributes(Val(ka))) ELSE None,
         attribute_maps |-> ReadField(s, "attribute_maps"),
         metric_references |-> ParseMetricReferences(ReadField(s, "metric_references"))]

\* ListServicesResponse(**raw_response): does validation succeed
ListServicesResponseOK(raw) ==
    LET ss == ReadField(raw, "service_summaries")
    IN  IsSet(ss) => \A k \in 1..Len(Val(ss)) : ServiceSummaryOK(Val(ss)[k])

ParseListServicesResponse(raw) ==
    LET ss == ReadField(raw, "service_summaries")
    IN  [service_summaries |-> IF IsSet(ss)
                               THEN Some([k \in 1..Len(Val(ss)) |-> ParseServiceSummary(Val(ss)[k])])
                               ELSE None,
         next_token |-> ReadField(raw, "next_token")]

ParseLogGroupReference(g) ==
    [type |-> ReadField(g, "type"), resource_type |-> ReadField(g, "resource_type"),
     identifier |-> ReadField(g, "identifier")]

\* ServiceDetail(**s)
ServiceDetailOK(s) == MetricReferencesOK(ReadField(s, "metric_references"))

ParseServiceDetail(s) ==
    LET ka == ReadField(s, "key_attributes")
        lg == ReadField(s, "log_group_references")
    IN  [key_attributes |-> IF IsSet(ka) THEN Some(ParseKeyAttributes(Val(ka))) ELSE None,
         attribute_maps |-> ReadField(s, "attribute_maps"),
         metric_references |-> ParseMetricReferences(ReadField(s, "metric_references")),
         log_group_references |-> IF IsSet(lg)
                                  THEN Some([k \in 1..Len(Val(lg)) |-> ParseLogGroupReference(Val(lg)[k])])
                                  ELSE None]

\* GetServiceResponse(**detail_response)
GetServiceResponseOK(raw) ==
    LET s == ReadField(raw, "service") IN IsSet(s) => ServiceDetailOK(Val(s))

ParseGetServiceResponse(raw) ==
    LET s == ReadField(raw, "service")
    IN  [service |-> IF IsSet(s) THEN Some(ParseServiceDetail(Val(s))) ELSE None]

-----------------------------------------------------------------------------
(* Validation layer: the Field(ge = ..., le = ...) constraints              *)

MaxResultsMin == 1

MaxResultsMax == 500

HoursBackMin == 1

HoursBackMax == 168

\* One line of a pydantic ValidationError for an int outside ge / le
BoundViolation(field, v, lo, hi) ==
    IF v < lo
    THEN << field \o "\n  Input should be greater than or equal to " \o ToString(lo)
            \o " [type=greater_than_equal, input_value=" \o ToString(v) \o ", input_type=int]" >>
    ELSE IF v > hi
    THEN << field \o "\n  Input should be less than or equal to " \o ToString(hi)
            \o " [type=less_than_equal, input_value=" \o ToString(v) \o ", input_type=int]" >>
    ELSE << >>

\* Mutant: the bounds of max_results are exclusive (gt = 1, lt = 500)
ListServicesParamsErrors_exclusive(max_results) ==
    BoundViolation("max_results", max_results, MaxResultsMin + 1, MaxResultsMax - 1)

\* ListServicesParams(start_time, end_time, max_results): the violations found
ListServicesParamsErrors(max_results) ==
    BoundViolation("max_results", max_results, MaxResultsMin, MaxResultsMax)

\* ListServicesParams(start_time = ..., end_time = ..., max_results = ...) once
\* validated: the three values as given, the other fields at their defaults
ListServicesParams(start_time, end_time, max_results) ==
    [start_time |-> start_time, end_time |-> end_time, max_results |-> max_results,
     next_token |-> << >>, include_linked_accounts |-> FALSE, aws_account_id |-> << >>]

\* Mutant: hours_back is checked against the bounds of max_results
GetServiceParamsErrors_listBounds(service_name, hours_back) ==
    BoundViolation("hours_back", hours_back, MaxResultsMin, MaxResultsMax)

\* GetServiceParams(service_name, hours_back): the violations found;
\* service_name is a plain str field with no length constraint
GetServiceParamsErrors(service_name, hours_back) ==
    BoundViolation("hours_back", hours_back, HoursBackMin, HoursBackMax)

RECURSIVE JoinWith(_, _)
\* sep.join(lines)
JoinWith(lines, sep) ==
    IF Len(lines) = 0 THEN ""
    ELSE IF Len(lines) = 1 THEN lines[1]
    ELSE lines[1] \o sep \o JoinWith(Tail(lines), sep)

\* str(e) of a pydantic ValidationError (without the trailing documentation link)
ValidationErrorText(model, errs) ==
    ToString(Len(errs)) \o " validation error" \o (IF Len(errs) = 1 THEN "" ELSE "s")
        \o " for " \o model \o "\n" \o JoinWith(errs, "\n")

-----------------------------------------------------------------------------
(* Formatter: the report text built by the two tools                        *)

\* "".join(parts)
Concat(parts) == JoinWith(parts, "")

\* The bullet character U+2022 of the report lines
Bullet == "*"

\* for attr_map in maps: for key, value in attr_map.items(): f"{indent}{key}: {value}\n"
\* (a map is the sequence of its <<key, value>> items)
AttributeMapLines(maps, indent) ==
    Concat([m \in 1..Len(maps) |->
        Concat([k \in 1..Len(maps[m]) |->
            indent \o maps[m][k][1] \o ": " \o Fmt(maps[m][k][2]) \o "\n"])])

\* One pass of the loop over response.service_summaries
ServiceBlock(service) ==
    IF IsSet(service.key_attributes)
    THEN LET ka == Val(service.key_attributes)
         IN  "Service: " \o OrUnknown(ka.name) \o "\n"
             \o "   Type: " \o OrUnknown(ka.type) \o "\n"
             \o (IF Truthy(ka.environment)
                 THEN "  Environment: " \o Val(ka.environment) \o "\n" ELSE "")
             \o (IF Truthy(ka.resource_type)
                 THEN "  Resource Type: " \o Val(ka.resource_type) \o "\n" ELSE "")
             \o (IF TruthyList(service.attribute_maps)
                 THEN "  Additional Attributes:\n"
                      \o AttributeMapLines(Val(service.attribute_maps), "    ")
                 ELSE "")
             \o (IF TruthyList(service.metric_references)
                 THEN "  Metrics: " \o ToString(Len(Val(service.metric_references)))
                      \o " configured\n"
                 ELSE "")
             \o "\n"
    ELSE "Service: Unknown (no attributes)\n" \o "\n"

\* Mutant: the blocks are emitted last summary first
ListReport_reversed(response) ==
    LET ss == Val(response.service_summaries)
    IN  "Application Signals Services (" \o ToString(Len(ss)) \o " total):\n\n"
        \o Concat([k \in 1..Len(ss) |-> ServiceBlock(ss[Len(ss) + 1 - k])])

\* The header and the service blocks of list_monitored_services
ListReport(response) ==
    LET ss == Val(response.service_summaries)
    IN  "Application Signals Services (" \o ToString(Len(ss)) \o " total):\n\n"
        \o Concat([k \in 1..Len(ss) |-> ServiceBlock(ss[k])])

\* response.next_token[:20]
First20(token) == IF Len(token) <= 20 THEN token ELSE SubSeq(token, 1, 20)

NextTokenNote(token) ==
    "Note: More services available (NextToken: " \o First20(token) \o " ...)\n"

MetricBlock(metric) ==
    "  " \o Bullet \o " " \o OrUnknown(metric.namespace) \o "/" \o OrUnknown(metric.metric_name) \o "\n"
    \o (IF Truthy(metric.metric_type)
        THEN "    Type: " \o Val(metric.metric_type) \o "\n" ELSE "")
    \o (IF TruthyList(metric.dimensions)
        THEN LET ds == Val(metric.dimensions)
             IN  "    Dimensions: "
                 \o JoinWith([k \in 1..Len(ds) |-> ds[k].name \o "=" \o ds[k].value], ", ")
                 \o "\n"
        ELSE "")
    \o "\n"

KeyAttributesBlock(ka) ==
    "Key Attributes:\n"
    \o (IF Truthy(ka.name) THEN "  Name: " \o Val(ka.name) \o "\n" ELSE "")
    \o (IF Truthy(ka.type) THEN "  Type: " \o Val(ka.type) \o "\n" ELSE "")
    \o (IF Truthy(ka.environment) THEN "  Environment: " \o Val(ka.environment) \o "\n" ELSE "")
    \o (IF Truthy(ka.resource_type)
        THEN "  Resource Type: " \o Val(ka.resource_type) \o "\n" ELSE "")
    \o (IF Truthy(ka.identifier) THEN "  Identifier: " \o Val(ka.identifier) \o "\n" ELSE "")

\* Mutant: the two reference sections are emitted for every list that is not
\* None, an empty one included
DetailReport_emptySections(service_name, d) ==
    "Service Details: " \o service_name \o "\n\n"
    \o (IF IsSet(d.key_attributes) THEN KeyAttributesBlock(Val(d.key_attributes)) ELSE "")
    \o (IF TruthyList(d.attribute_maps)
        THEN "Additional Attributes:\n" \o AttributeMapLines(Val(d.attribute_maps), "  ") \o "\n"
        ELSE "")
    \o (IF IsSet(d.metric_references)
        THEN LET ms == Val(d.metric_references)
             IN  "Metric References (" \o ToString(Len(ms)) \o " total):\n"
                 \o Concat([k \in 1..Len(ms) |-> MetricBlock(ms[k])])
        ELSE "")
    \o (IF IsSet(d.log_group_references)
        THEN LET gs == Val(d.log_group_references)
             IN  "Log Group References (" \o ToString(Len(gs)) \o " total):\n"
                 \o Concat([k \in 1..Len(gs) |->
                        "  " \o Bullet \o " " \o OrUnknown(gs[k].identifier) \o "\n"])
                 \o "\n"
        ELSE "")

\* The report of get_service_detail
DetailReport(service_name, d) ==
    "Service Details: " \o service_name \o "\n\n"
    \o (IF IsSet(d.key_attributes) THEN KeyAttributesBlock(Val(d.key_attributes)) ELSE "")
    \o (IF TruthyList(d.attribute_maps)
        THEN "Additional Attributes:\n" \o AttributeMapLines(Val(d.attribute_maps), "  ") \o "\n"
        ELSE "")
    \o (IF TruthyList(d.metric_references)
        THEN LET ms == Val(d.metric_references)
             IN  "Metric References (" \o ToString(Len(ms)) \o " total):\n"
                 \o Concat([k \in 1..Len(ms) |-> MetricBlock(ms[k])])
        ELSE "")
    \o (IF TruthyList(d.log_group_references)
        THEN LET gs == Val(d.log_group_references)
             IN  "Log Group References (" \o ToString(Len(gs)) \o " total):\n"
                 \o Concat([k \in 1..Len(gs) |->
                        "  " \o Bullet \o " " \o OrUnknown(gs[k].identifier) \o "\n"])
                 \o "\n"
        ELSE "")

NotFoundMessage(service_name) == "Service '" \o service_name \o "' not found in Application Signals."

NoDetailsMessage(service_name) == "No service details found for '" \o service_name \o "'."

NoServicesMessage == "No services found in Application Signals."

-----------------------------------------------------------------------------
(* Error classifier: the three except clauses of each tool                  *)

\* d.get(k, default) on a dict of plain values
GetOr(d, k, default) == IF k \in DOMAIN d THEN d[k] ELSE default

\* e.response.get("Error", {}).get(k, default)
ErrorField(response, k, default) ==
    IF "Error" \in DOMAIN response THEN GetOr(response["Error"], k, default) ELSE default

\* str(e) of a botocore ClientError raised by operation_name
ClientErrorText(response, operation_name) ==
    "An error occurred (" \o ErrorField(response, "Code", "Unknown") \o ") when calling the "
        \o operation_name \o " operation: " \o ErrorField(response, "Message", "Unknown")

\* The except clause that catches an exception raised in the try body:
\* ValidationError, then ClientError, then Exception; a BaseException that is
\* no Exception (asyncio.CancelledError) is caught by none
HandlerOf(e) ==
    CASE e.cls = "ValidationError" -> "validation"
      [] e.cls = "ClientError" -> "client"
      [] e.cls = "CancelledError" -> "none"
      [] OTHER -> "exception"

\* Mutant: the ClientError clause returns str(e) instead of the message field
HandlerResult_str(e) ==
    CASE HandlerOf(e) = "validation" -> "Invalid parameters: " \o e.text
      [] HandlerOf(e) = "client" -> "AWS Error: " \o e.text
      [] OTHER -> "Error: " \o e.text

\* The string the handler returns once its `await ctx.error(...)` is done
HandlerResult(e) ==
    CASE HandlerOf(e) = "validation" -> "Invalid parameters: " \o e.text
      [] HandlerOf(e) = "client" -> "AWS Error: " \o ErrorField(e.response, "Message", "Unknown error")
      [] OTHER -> "Error: " \o e.text

-----------------------------------------------------------------------------
(* The environment: caller inputs, the clock, and what the upstream API     *)
(* (appsignals_client) can answer                                           *)

\* Longest ServiceSummaries list the upstream answers with
MaxSummaries == 2

ServiceNames == {"svc", "SVC", "", "other"}

\* list_monitored_services puts no constraint on hours_back; 20000000 hours
\* reach back before datetime.min
HoursBackInputs == {-1, 0, 1, 168, 169, 200, 20000000}

MaxResultsInputs == {0, 1, 500, 501}

\* The continuation token a caller holds when it asks for the next page: none,
\* or the token of an earlier truncated report.  The tool host passes a mapping
\* of named parameters; the signature of list_monitored_services binds only
\* hours_back and max_results
RequestTokens == {None, Some("token-1")}

\* The clock readings, in whole hours since datetime.min
NowValues == {17758180, 17758181}

\* datetime.now(timezone.utc): an aware datetime
UtcNow(clock) == [hours |-> clock, tzinfo |-> "UTC"]

\* Mutant: timedelta(days = h)
MinusHours_days(t, h) == [hours |-> t.hours - 24 * h, tzinfo |-> t.tzinfo]

\* t - timedelta(hours = h): the tzinfo of t is kept
MinusHours(t, h) == [hours |-> t.hours - h, tzinfo |-> t.tzinfo]

\* datetime arithmetic raises OverflowError outside [datetime.min, datetime.max]
DateInRange(t) == t.hours >= 0 /\ t.hours <= 87649415

KA_prod == [Type |-> Some("Service"), Name |-> Some("svc"), Environment |-> Some("prod")]

KA_dev == [Name |-> Some("svc"), Environment |-> Some("dev"), Identifier |-> None]

KA_upper == [Name |-> Some("SVC"), ResourceType |-> Some("AWS::ECS::Service")]

KA_unnamed == [Type |-> Some("Service")]

KA_blank == [Name |-> Some("")]

Metric_latency ==
    [Namespace |-> Some("AWS/ApplicationSignals"), MetricType |-> Some("Latency"),
     MetricName |-> Some("Latency"),
     Dimensions |-> Some(<< [Name |-> Some("Service"), Value |-> Some("svc")],
                            [Name |-> Some("Environment"), Value |-> Some("prod")] >>)]

Metric_bare == [MetricType |-> Some("Error")]

\* A dimension without its Value: MetricDimension rejects it
Metric_malformed == [Namespace |-> Some("AWS/ApplicationSignals"),
                     Dimensions |-> Some(<< [Name |-> Some("Service")] >>)]

AttributeMap_platform == << <<"Platform", Some("ECS")>>, <<"Owner", None>> >>

ServiceSummaries ==
    { [KeyAttributes |-> Some(KA_prod),
       AttributeMaps |-> Some(<< AttributeMap_platform >>),
       MetricReferences |-> Some(<< Metric_latency, Metric_bare >>)],
      [KeyAttributes |-> Some(KA_dev)],
      [KeyAttributes |-> Some(KA_upper), AttributeMaps |-> Some(<< >>)],
      [KeyAttributes |-> Some(KA_unnamed)],
      [KeyAttributes |-> Some(KA_blank)],
      [AttributeMaps |-> Some(<< AttributeMap_platform >>),
       MetricReferences |-> Some(<< Metric_bare >>)],
      [KeyAttributes |-> Some(KA_prod), MetricReferences |-> Some(<< Metric_malformed >>)] }

SummaryLists == UNION {[1..n -> ServiceSummaries] : n \in 0..MaxSummaries}

NextTokens == {None, Some(""), Some("token-1"), Some("abcdefghijklmnopqrstuvwxyz123456")}

\* The payloads list_services returns
ListPayloads ==
    {[k \in {} |-> None], [ServiceSummaries |-> None, NextToken |-> Some("token-1")]}
    \cup {[ServiceSummaries |-> Some(ss), NextToken |-> t] : ss \in SummaryLists, t \in NextTokens}

LogGroup_ecs == [Type |-> Some("AWS::Resource"), ResourceType |-> Some("AWS::Logs::LogGroup"),
                 Identifier |-> Some("/aws/ecs/svc")]

LogGroup_anonymous == [Type |-> Some("AWS::Resource")]

\* The payloads get_service returns
DetailPayloads ==
    { [k \in {} |-> None],
      [Service |-> None],
      [Service |-> Some([k \in {} |-> None])],
      [Service |-> Some([KeyAttributes |-> Some(KA_prod),
                         AttributeMaps |-> Some(<< AttributeMap_platform >>),
                         MetricReferences |-> Some(<< Metric_latency, Metric_bare >>),
                         LogGroupReferences |-> Some(<< LogGroup_ecs >>)])],
      [Service |-> Some([KeyAttributes |-> Some(KA_dev),
                         MetricReferences |-> Some(<< >>),
                         LogGroupReferences |-> Some(<< LogGroup_ecs, LogGroup_anonymous >>)])],
      [Service |-> Some([KeyAttributes |-> Some(KA_prod),
                         MetricReferences |-> Some(<< Metric_malformed >>)])] }

NoResponse == [k \in {} |-> None]

\* The error responses a botocore ClientError carries
ClientErrorResponses ==
    { [Error |-> [Code |-> "ThrottlingException", Message |-> "Rate exceeded"]],
      [Error |-> [Code |-> "AccessDeniedException"]],
      NoResponse }

ClientErrorOf(response, operation_name) ==
    [cls |-> "ClientError", text |-> ClientErrorText(response, operation_name),
     response |-> response]

ExceptionOf(cls, text) == [cls |-> cls, text |-> text, response |-> NoResponse]

\* What an upstream call can raise
UpstreamErrors(operation_name) ==
    {ClientErrorOf(r, operation_name) : r \in ClientErrorResponses}
    \cup {ExceptionOf("Exception", "Unexpected error"),
          ExceptionOf("EndpointConnectionError", "Could not connect to the endpoint URL")}

NoException == ExceptionOf("", "")

\* Several invocations are in flight at once.  Each then draws its inputs and
\* its upstream answers from a few representatives of the sets above, one per
\* path through the tools, so that all interleavings can be enumerated
Concurrent == Cardinality(DOMAIN pc) > 1

Offered(all, few) == IF Concurrent THEN few ELSE all

ConcurrentHoursBack == {1, 169}

ConcurrentMaxResults == {1, 501}

ConcurrentServiceNames == {"svc", "other"}

ConcurrentListPayloads ==
    { [ServiceSummaries |-> Some(<< >>), NextToken |-> None],
      [ServiceSummaries |-> Some(<< [KeyAttributes |-> Some(KA_prod),
                                     AttributeMaps |-> Some(<< AttributeMap_platform >>),
                                     MetricReferences |-> Some(<< Metric_latency, Metric_bare >>)] >>),
       NextToken |-> Some("token-1")],
      [ServiceSummaries |-> Some(<< [AttributeMaps |-> Some(<< AttributeMap_platform >>),
                                     MetricReferences |-> Some(<< Metric_bare >>)],
                                    [KeyAttributes |-> Some(KA_dev)] >>),
       NextToken |-> None] }

ConcurrentDetailPayloads ==
    { [Service |-> None],
      [Service |-> Some([KeyAttributes |-> Some(KA_prod),
                         AttributeMaps |-> Some(<< AttributeMap_platform >>),
                         MetricReferences |-> Some(<< Metric_latency, Metric_bare >>),
                         LogGroupReferences |-> Some(<< LogGroup_ecs >>)])],
      [Service |-> Some([KeyAttributes |-> Some(KA_dev),
                         MetricReferences |-> Some(<< >>),
                         LogGroupReferences |-> Some(<< LogGroup_ecs, LogGroup_anonymous >>)])] }

ConcurrentErrors(operation_name) ==
    { ClientErrorOf([Error |-> [Code |-> "ThrottlingException", Message |-> "Rate exceeded"]],
                    operation_name),
      ExceptionOf("Exception", "Unexpected error") }

\* What list_services, get_service return or raise for one call
ListAnswers == Offered(ListPayloads, ConcurrentListPayloads)

DetailAnswers == Offered(DetailPayloads, ConcurrentDetailPayloads)

Failures(operation_name) == Offered(UpstreamErrors(operation_name), ConcurrentErrors(operation_name))

-----------------------------------------------------------------------------
(* State                                                                    *)
(*   op[i]         the tool invocation i runs ("" before it is invoked)     *)
(*   args[i]       its arguments                                            *)
(*   pc[i]         "idle", the await it is suspended at, or "done"          *)
(*   window[i]     start_time / end_time once computed                      *)
(*   calls[i]      the upstream calls it has issued, in order               *)
(*   listResp[i]   the payload its list_services call returned              *)
(*   target[i]     target_service                                           *)
(*   detailResp[i] the payload its get_service call returned                *)
(*   exc[i]        the exception its except clause is handling              *)
(*   partial[i]    the result string built so far                           *)
(*   ret[i]        how it ended: a returned string or a raised exception    *)

Invocations == DOMAIN pc

NoArgs == [service_name |-> "", hours_back |-> 0, max_results |-> 0, next_token |-> None]

NoWindow == [start_time |-> [hours |-> 0, tzinfo |-> ""], end_time |-> [hours |-> 0, tzinfo |-> ""]]

Pending == [kind |-> "pending", value |-> ""]

InitOver(ids) ==
    /\ op = [i \in ids |-> ""]
    /\ args = [i \in ids |-> NoArgs]
    /\ pc = [i \in ids |-> "idle"]
    /\ window = [i \in ids |-> NoWindow]
    /\ calls = [i \in ids |-> << >>]
    /\ listResp = [i \in ids |-> None]
    /\ target = [i \in ids |-> None]
    /\ detailResp = [i \in ids |-> None]
    /\ exc = [i \in ids |-> NoException]
    /\ partial = [i \in ids |-> ""]
    /\ ret = [i \in ids |-> Pending]

Init == InitOver({1})

\* The awaits inside the except clauses
HandlerAwaits == {"error122", "error127", "error130", "error262", "error267", "error270"}

\* The awaits inside the try bodies
BodyAwaits == {"info57", "debug58", "warning76", "info80", "warning115",
               "info162", "debug169", "warning186", "debug191", "error204", "info257"}

\* The `await ctx.error(...)` of the except clause h of tool o
HandlerAwait(o, h) ==
    IF o = "list_monitored_services"
    THEN CASE h = "validation" -> "error122" [] h = "client" -> "error127" [] OTHER -> "error130"
    ELSE CASE h = "validation" -> "error262" [] h = "client" -> "error267" [] OTHER -> "error270"

\* `return value`
Return(i, value) ==
    /\ pc' = [pc EXCEPT ![i] = "done"]
    /\ ret' = [ret EXCEPT ![i] = [kind |-> "returned", value |-> value]]

\* The exception e leaves the coroutine
Escape(i, e) ==
    /\ pc' = [pc EXCEPT ![i] = "done"]
    /\ ret' = [ret EXCEPT ![i] = [kind |-> "raised", value |-> e.cls]]
    /\ exc' = [exc EXCEPT ![i] = e]

\* The exception e is raised inside the try body: the matching except clause
\* starts and suspends at its `await ctx.error(...)`
Raise(i, e) ==
    IF HandlerOf(e) = "none"
    THEN Escape(i, e)
    ELSE /\ pc' = [pc EXCEPT ![i] = HandlerAwait(op[i], HandlerOf(e))]
         /\ exc' = [exc EXCEPT ![i] = e]
         /\ ret' = ret

\* Suspend at the await `at` of the try body
Suspend(i, at) ==
    /\ pc' = [pc EXCEPT ![i] = at]
    /\ exc' = exc
    /\ ret' = ret

\* appsignals_client.list_services(StartTime, EndTime, MaxResults)
ListServicesCall(w, max_results, outcome) ==
    [api |-> "list_services", StartTime |-> w.start_time, EndTime |-> w.end_time,
     MaxResults |-> max_results, outcome |-> outcome]

\* appsignals_client.get_service(StartTime, EndTime, KeyAttributes)
GetServiceCall(w, key_attributes, outcome) ==
    [api |-> "get_service", StartTime |-> w.start_time, EndTime |-> w.end_time,
     KeyAttributes |-> key_attributes, outcome |-> outcome]

\* Mutant: a call that fails is issued a second time
Issue_retry(i, call) ==
    calls' = [calls EXCEPT ![i] =
                 IF call.outcome = "returned" THEN Append(@, call) ELSE Append(Append(@, call), call)]

\* The invocation issues an upstream call: it is appended to its call record
Issue(i, call) == calls' = [calls EXCEPT ![i] = Append(@, call)]

\* end_time = datetime.now(timezone.utc); start_time = end_time - timedelta(hours = h)
Window(now, h) == [start_time |-> MinusHours(UtcNow(now), h), end_time |-> UtcNow(now)]

-----------------------------------------------------------------------------
(* list_monitored_services                                                  *)

\* The tool host calls list_monitored_services(ctx, hours_back, max_results)
InvokeList(i) ==
    /\ pc[i] = "idle"
    /\ \E h \in Offered(HoursBackInputs, ConcurrentHoursBack),
          m \in Offered(MaxResultsInputs, ConcurrentMaxResults),
          t \in Offered(RequestTokens, {None}) :
          args' = [args EXCEPT ![i] = [service_name |-> "", hours_back |-> h, max_results |-> m,
                                       next_token |-> t]]
    /\ op' = [op EXCEPT ![i] = "list_monitored_services"]
    /\ pc' = [pc EXCEPT ![i] = "info57"]
    /\ UNCHANGED <<window, calls, listResp, target, detailResp, exc, partial, ret>>

\* line 57 done; suspend at line 58
ListDebug(i) ==
    /\ pc[i] = "info57"
    /\ pc' = [pc EXCEPT ![i] = "debug58"]
    /\ UNCHANGED <<op, args, window, calls, listResp, target, detailResp, exc, partial, ret>>

\* lines 60-80: the window, the parameters, the upstream call, the parse
ListQuery(i) ==
    /\ pc[i] = "debug58"
    /\ UNCHANGED <<op, args, target, detailResp>>
    /\ \E now \in NowValues :
        LET w == Window(now, args[i].hours_back)
            errs == ListServicesParamsErrors(args[i].max_results)
            params == ListServicesParams(w.start_time, w.end_time, args[i].max_results)
        IN  IF ~DateInRange(w.start_time)
            THEN /\ Raise(i, ExceptionOf("OverflowError", "date value out of range"))
                 /\ UNCHANGED <<window, calls, listResp, partial>>
            ELSE IF Len(errs) > 0
            THEN /\ Raise(i, ExceptionOf("ValidationError",
                                         ValidationErrorText("ListServicesParams", errs)))
                 /\ window' = [window EXCEPT ![i] = w]
                 /\ UNCHANGED <<calls, listResp, partial>>
            ELSE /\ window' = [window EXCEPT ![i] = w]
                 /\ \/ \E e \in Failures("ListServices") :
                          /\ Issue(i, ListServicesCall(params, params.max_results, e.cls))
                          /\ Raise(i, e)
                          /\ UNCHANGED <<listResp, partial>>
                    \/ \E raw \in ListAnswers :
                          /\ Issue(i, ListServicesCall(params, params.max_results, "returned"))
                          /\ listResp' = [listResp EXCEPT ![i] = Some(raw)]
                          /\ IF ~ListServicesResponseOK(raw)
                             THEN /\ Raise(i, ExceptionOf("ValidationError",
                                        ValidationErrorText("ListServicesResponse",
                                                            << "Value\n  Field required" >>)))
                                  /\ UNCHANGED partial
                             ELSE IF ~TruthyList(ParseListServicesResponse(raw).service_summaries)
                             THEN /\ Suspend(i, "warning76")
                                  /\ UNCHANGED partial
                             ELSE /\ Suspend(i, "info80")
                                  /\ UNCHANGED partial

\* line 77
ListReturnEmpty(i) ==
    /\ pc[i] = "warning76"
    /\ Return(i, NoServicesMessage)
    /\ UNCHANGED <<op, args, window, calls, listResp, target, detailResp, exc, partial>>

\* lines 82-118
ListFormat(i) ==
    /\ pc[i] = "info80"
    /\ LET response == ParseListServicesResponse(Val(listResp[i]))
           result == ListReport(response)
       IN  IF Truthy(response.next_token)
           THEN /\ Suspend(i, "warning115")
                /\ partial' = [partial EXCEPT ![i] = result]
           ELSE /\ Return(i, result)
                /\ partial' = [partial EXCEPT ![i] = result]
                /\ exc' = exc
    /\ UNCHANGED <<op, args, window, calls, listResp, target, detailResp>>

\* Mutant: `result` is a module-level variable, so the note is appended to
\* the text that some invocation in flight has built
ListReturnTruncated_sharedResult(i) ==
    /\ pc[i] = "warning115"
    /\ \E j \in Invocations :
          /\ partial[j] # ""
          /\ LET response == ParseListServicesResponse(Val(listResp[i]))
                 result == partial[j] \o NextTokenNote(Val(response.next_token))
             IN  /\ Return(i, result)
                 /\ partial' = [partial EXCEPT ![i] = result]
    /\ UNCHANGED <<op, args, window, calls, listResp, target, detailResp, exc>>

\* lines 116-118
ListReturnTruncated(i) ==
    /\ pc[i] = "warning115"
    /\ LET response == ParseListServicesResponse(Val(listResp[i]))
           result == partial[i] \o NextTokenNote(Val(response.next_token))
       IN  /\ Return(i, result)
           /\ partial' = [partial EXCEPT ![i] = result]
    /\ UNCHANGED <<op, args, window, calls, listResp, target, detailResp, exc>>

-----------------------------------------------------------------------------
(* The except clauses (the same three in both tools)                        *)

\* lines 123, 128, 131 and 263, 268, 271: the await ctx.error(...) is done,
\* the handler returns its string
HandlerReturn(i) ==
    /\ pc[i] \in HandlerAwaits
    /\ Return(i, HandlerResult(exc[i]))
    /\ UNCHANGED <<op, args, window, calls, listResp, target, detailResp, exc, partial>>

-----------------------------------------------------------------------------
(* get_service_detail                                                       *)

\* MaxResults of the list_services call of get_service_detail
DetailListCap == 100

RECURSIVE ScanFrom_unnamed(_, _, _)
\* Mutant: a summary whose key attributes carry no name matches any service_name
ScanFrom_unnamed(summaries, k, service_name) ==
    IF k > Len(summaries) THEN None
    ELSE IF /\ IsSet(summaries[k].key_attributes)
            /\ \/ Val(summaries[k].key_attributes).name = Some(service_name)
               \/ ~IsSet(Val(summaries[k].key_attributes).name)
         THEN Some(summaries[k])
         ELSE ScanFrom_unnamed(summaries, k + 1, service_name)

RECURSIVE ScanFrom(_, _, _)
\* lines 180-183: the loop over the summaries from index k on, with its break
ScanFrom(summaries, k, service_name) ==
    IF k > Len(summaries) THEN None
    ELSE IF /\ IsSet(summaries[k].key_attributes)
            /\ Val(summaries[k].key_attributes).name = Some(service_name)
         THEN Some(summaries[k])
         ELSE ScanFrom(summaries, k + 1, service_name)

\* str.lower() over the service names of the model
Lower(name) == IF name = "SVC" THEN "svc" ELSE name

\* Mutant: the names are compared ignoring case
FindTarget_ignoreCase(response, service_name) ==
    LET ss == IF IsSet(response.service_summaries) THEN Val(response.service_summaries) ELSE << >>
        hits == {k \in 1..Len(ss) :
                    /\ IsSet(ss[k].key_attributes)
                    /\ IsSet(Val(ss[k].key_attributes).name)
                    /\ Lower(Val(Val(ss[k].key_attributes).name)) = Lower(service_name)}
    IN  IF hits = {} THEN None ELSE Some(ss[CHOOSE k \in hits : \A j \in hits : k <= j])

\* lines 179-183: target_service
FindTarget(response, service_name) ==
    ScanFrom(IF IsSet(response.service_summaries) THEN Val(response.service_summaries) ELSE << >>,
             1, service_name)

\* line 185: not target_service or not target_service.key_attributes
NotFound(t) == ~IsSet(t) \/ ~IsSet(Val(t).key_attributes)

\* The tool host calls get_service_detail(ctx, service_name, hours_back)
InvokeGet(i) ==
    /\ pc[i] = "idle"
    /\ \E n \in Offered(ServiceNames, ConcurrentServiceNames),
          h \in Offered(HoursBackInputs, ConcurrentHoursBack) :
          args' = [args EXCEPT ![i] = [service_name |-> n, hours_back |-> h,
                                       max_results |-> DetailListCap, next_token |-> None]]
    /\ op' = [op EXCEPT ![i] = "get_service_detail"]
    /\ pc' = [pc EXCEPT ![i] = "info162"]
    /\ UNCHANGED <<window, calls, listResp, target, detailResp, exc, partial, ret>>

\* lines 164-169: the parameters and the window
GetValidate(i) ==
    /\ pc[i] = "info162"
    /\ UNCHANGED <<op, args, calls, listResp, target, detailResp, partial>>
    /\ LET errs == GetServiceParamsErrors(args[i].service_name, args[i].hours_back)
       IN  IF Len(errs) > 0
           THEN /\ Raise(i, ExceptionOf("ValidationError",
                                        ValidationErrorText("GetServiceParams", errs)))
                /\ UNCHANGED window
           ELSE \E now \in NowValues :
                  LET w == Window(now, args[i].hours_back)
                  IN  IF ~DateInRange(w.start_time)
                      THEN /\ Raise(i, ExceptionOf("OverflowError", "date value out of range"))
                           /\ UNCHANGED window
                      ELSE /\ Suspend(i, "debug169")
                           /\ window' = [window EXCEPT ![i] = w]

\* lines 173-191: the list call, the parse, the scan for the service
GetLookup(i) ==
    /\ pc[i] = "debug169"
    /\ UNCHANGED <<op, args, window, detailResp, partial>>
    /\ \/ \E e \in Failures("ListServices") :
             /\ Issue(i, ListServicesCall(window[i], DetailListCap, e.cls))
             /\ Raise(i, e)
             /\ UNCHANGED <<listResp, target>>
       \/ \E raw \in ListAnswers :
             /\ Issue(i, ListServicesCall(window[i], DetailListCap, "returned"))
             /\ listResp' = [listResp EXCEPT ![i] = Some(raw)]
             /\ IF ~ListServicesResponseOK(raw)
                THEN /\ Raise(i, ExceptionOf("ValidationError",
                           ValidationErrorText("ListServicesResponse",
                                               << "Value\n  Field required" >>)))
                     /\ UNCHANGED target
                ELSE LET t == FindTarget(ParseListServicesResponse(raw), args[i].service_name)
                     IN  /\ target' = [target EXCEPT ![i] = t]
                         /\ Suspend(i, IF NotFound(t) THEN "warning186" ELSE "debug191")

\* line 189
GetReturnNotFound(i) ==
    /\ pc[i] = "warning186"
    /\ Return(i, NotFoundMessage(args[i].service_name))
    /\ UNCHANGED <<op, args, window, calls, listResp, target, detailResp, exc, partial>>

\* Mutant: a failure of the detail call is treated as an empty detail result
GetDetail_swallow(i) ==
    /\ pc[i] = "debug191"
    /\ UNCHANGED <<op, args, window, listResp, target>>
    /\ LET key == DumpKeyAttributes(Val(Val(target[i]).key_attributes))
       IN  \/ \E e \in Failures("GetService") :
                /\ Issue(i, GetServiceCall(window[i], key, e.cls))
                /\ Suspend(i, "error204")
                /\ UNCHANGED <<detailResp, partial>>
           \/ \E raw \in DetailAnswers :
                /\ Issue(i, GetServiceCall(window[i], key, "returned"))
                /\ detailResp' = [detailResp EXCEPT ![i] = Some(raw)]
                /\ IF ~GetServiceResponseOK(raw)
                   THEN /\ Raise(i, ExceptionOf("ValidationError",
                              ValidationErrorText("GetServiceResponse",
                                                  << "Value\n  Field required" >>)))
                        /\ UNCHANGED partial
                   ELSE LET service == ParseGetServiceResponse(raw).service
                        IN  IF ~IsSet(service)
                            THEN /\ Suspend(i, "error204")
                                 /\ UNCHANGED partial
                            ELSE /\ Suspend(i, "info257")
                                 /\ partial' = [partial EXCEPT ![i] =
                                        DetailReport(args[i].service_name, Val(service))]

\* lines 193-257: the detail call, the parse, the report
GetDetail(i) ==
    /\ pc[i] = "debug191"
    /\ UNCHANGED <<op, args, window, listResp, target>>
    /\ LET key == DumpKeyAttributes(Val(Val(target[i]).key_attributes))
       IN  \/ \E e \in Failures("GetService") :
                /\ Issue(i, GetServiceCall(window[i], key, e.cls))
                /\ Raise(i, e)
                /\ UNCHANGED <<detailResp, partial>>
           \/ \E raw \in DetailAnswers :
                /\ Issue(i, GetServiceCall(window[i], key, "returned"))
                /\ detailResp' = [detailResp EXCEPT ![i] = Some(raw)]
                /\ IF ~GetServiceResponseOK(raw)
                   THEN /\ Raise(i, ExceptionOf("ValidationError",
                              ValidationErrorText("GetServiceResponse",
                                                  << "Value\n  Field required" >>)))
                        /\ UNCHANGED partial
                   ELSE LET service == ParseGetServiceResponse(raw).service
                        IN  IF ~IsSet(service)
                            THEN /\ Suspend(i, "error204")
                                 /\ UNCHANGED partial
                            ELSE /\ Suspend(i, "info257")
                                 /\ partial' = [partial EXCEPT ![i] =
                                        DetailReport(args[i].service_name, Val(service))]

\* line 205
GetReturnNoDetails(i) ==
    /\ pc[i] = "error204"
    /\ Return(i, NoDetailsMessage(args[i].service_name))
    /\ UNCHANGED <<op, args, window, calls, listResp, target, detailResp, exc, partial>>

\* line 258
GetReturnReport(i) ==
    /\ pc[i] = "info257"
    /\ Return(i, partial[i])
    /\ UNCHANGED <<op, args, window, calls, listResp, target, detailResp, exc, partial>>

-----------------------------------------------------------------------------
(* Faults of the tool host at an await: the awaited ctx call raises, or the *)
(* task is cancelled while suspended                                        *)

\* What an awaited ctx.info / debug / warning / error can raise
CtxErrors == {ExceptionOf("ClosedResourceError", "")}

\* The awaited ctx call raises: inside the try body the exception is handled
\* by `except Exception`, inside an except clause nothing catches it
CtxRaises(i) ==
    /\ pc[i] \in BodyAwaits \cup HandlerAwaits
    /\ \E e \in CtxErrors :
          IF pc[i] \in BodyAwaits THEN Raise(i, e) ELSE Escape(i, e)
    /\ UNCHANGED <<op, args, window, calls, listResp, target, detailResp, partial>>

\* task.cancel(): asyncio.CancelledError is thrown into the coroutine at its await
Cancelled(i) ==
    /\ pc[i] \in BodyAwaits \cup HandlerAwaits
    /\ IF pc[i] \in BodyAwaits
       THEN Raise(i, ExceptionOf("CancelledError", ""))
       ELSE Escape(i, ExceptionOf("CancelledError", ""))
    /\ UNCHANGED <<op, args, window, calls, listResp, target, detailResp, partial>>

-----------------------------------------------------------------------------
(* Specifications                                                           *)

\* The tool host's logging calls return and no task is cancelled
Next ==
    \/ \E i \in Invocations : InvokeList(i)
    \/ \E i \in Invocations : ListDebug(i)
    \/ \E i \in Invocations : ListQuery(i)
    \/ \E i \in Invocations : ListReturnEmpty(i)
    \/ \E i \in Invocations : ListFormat(i)
    \/ \E i \in Invocations : ListReturnTruncated(i)
    \/ \E i \in Invocations : InvokeGet(i)
    \/ \E i \in Invocations : GetValidate(i)
    \/ \E i \in Invocations : GetLookup(i)
    \/ \E i \in Invocations : GetReturnNotFound(i)
    \/ \E i \in Invocations : GetDetail(i)
    \/ \E i \in Invocations : GetReturnNoDetails(i)
    \/ \E i \in Invocations : GetReturnReport(i)
    \/ \E i \in Invocations : HandlerReturn(i)

Spec == Init /\ [][Next]_vars

\* The same, with a tool host whose logging calls may raise and which may
\* cancel a suspended invocation
FaultNext ==
    \/ Next
    \/ \E i \in Invocations : CtxRaises(i)
    \/ \E i \in Invocations : Cancelled(i)

FaultSpec == Init /\ [][FaultNext]_vars

\* Two invocations in flight, interleaved at their awaits in every order
ConcurrentInit == InitOver({1, 2})

ConcurrentSpec == ConcurrentInit /\ [][Next]_vars

-----------------------------------------------------------------------------
(* Properties.  They read the recorded calls, the payloads as they came     *)
(* from the wire and the returned string, not the typed records.            *)

StartsWith(str, prefix) ==
    Len(str) >= Len(prefix) /\ SubSeq(str, 1, Len(prefix)) = prefix

Contains(str, part) ==
    \E k \in 1..(Len(str) - Len(part) + 1) : SubSeq(str, k, k + Len(part) - 1) = part

Last(seq) == seq[Len(seq)]

IsList(i) == op[i] = "list_monitored_services"

IsGet(i) == op[i] = "get_service_detail"

Done(i) == pc[i] = "done"

Returned(i) == ret[i].kind = "returned"

CallsOf(i, api) == {k \in 1..Len(calls[i]) : calls[i][k].api = api}

\* The summaries of a list payload as sent, none when the key is absent or null
WireSummaries(raw) ==
    IF "ServiceSummaries" \in DOMAIN raw /\ raw["ServiceSummaries"] # None
    THEN raw["ServiceSummaries"][1] ELSE << >>

\* The summary s, as sent, has key attributes whose Name is exactly n
WireNamed(s, n) ==
    /\ "KeyAttributes" \in DOMAIN s
    /\ s["KeyAttributes"] # None
    /\ "Name" \in DOMAIN s["KeyAttributes"][1]
    /\ s["KeyAttributes"][1]["Name"] = << n >>

\* Invocation i got a well-formed list result in which no summary is named
\* like its service_name
ListedWithoutMatch(i) ==
    /\ IsGet(i)
    /\ listResp[i] # None
    /\ ListServicesResponseOK(listResp[i][1])
    /\ \A k \in 1..Len(WireSummaries(listResp[i][1])) :
          ~WireNamed(WireSummaries(listResp[i][1])[k], args[i].service_name)

\* C1: a get_service_detail invocation whose service_name is the key-attribute
\* name of no summary of the list result never issues get_service, and what it
\* returns is exactly "Service '<service_name>' not found in Application Signals."
C1_NotFoundNoDetailCall ==
    \A i \in Invocations :
        ListedWithoutMatch(i) =>
            /\ CallsOf(i, "get_service") = {}
            /\ Done(i) =>
                  /\ Returned(i)
                  /\ ret[i].value = "Service '" \o args[i].service_name
                                       \o "' not found in Application Signals."

\* C1 witness: an invocation has returned after a list result of two summaries,
\* one of them without key attributes, none named like the requested service
C1_Witness ==
    \E i \in Invocations :
        /\ ListedWithoutMatch(i)
        /\ Done(i)
        /\ Len(WireSummaries(listResp[i][1])) = 2
        /\ \E k \in 1..2 : "KeyAttributes" \notin DOMAIN WireSummaries(listResp[i][1])[k]

\* C2: in a get_service_detail invocation the calls are list_services first and
\* then get_service, each at most once, and get_service is issued only when
\* the list_services call before it returned a result with a matching summary
C2_CallsSequential ==
    \A i \in Invocations :
        IsGet(i) =>
            /\ Cardinality(CallsOf(i, "list_services")) <= 1
            /\ Cardinality(CallsOf(i, "get_service")) <= 1
            /\ \A k \in CallsOf(i, "get_service") :
                  /\ k = 2
                  /\ calls[i][1].api = "list_services"
                  /\ calls[i][1].outcome = "returned"
                  /\ listResp[i] # None
                  /\ \E j \in 1..Len(WireSummaries(listResp[i][1])) :
                        WireNamed(WireSummaries(listResp[i][1])[j], args[i].service_name)

\* C2 witness: both upstream calls of an invocation have been issued
C2_Witness ==
    \E i \in Invocations :
        /\ IsGet(i)
        /\ Len(calls[i]) = 2
        /\ calls[i][2].api = "get_service"

\* A caller-supplied parameter of invocation i violates its declared constraint
ViolatesConstraint(i) ==
    \/ IsList(i) /\ (args[i].max_results < 1 \/ args[i].max_results > 500)
    \/ IsGet(i) /\ (args[i].hours_back < 1 \/ args[i].hours_back > 168)

\* C3: an invocation with max_results outside 1..500 (list_monitored_services)
\* or hours_back outside 1..168 (get_service_detail) issues no upstream call
\* and returns a string that starts with "Invalid parameters: "
C3_InvalidParametersAbort ==
    \A i \in Invocations :
        ViolatesConstraint(i) =>
            /\ calls[i] = << >>
            /\ Done(i) => Returned(i) /\ StartsWith(ret[i].value, "Invalid parameters: ")

\* C4: every invocation that ends, ends by returning a string, also when the
\* host's logging call fails inside an except clause (cancellation apart)
C4_AlwaysReturnsString ==
    \A i \in Invocations :
        Done(i) /\ exc[i].cls # "CancelledError" => Returned(i)

\* The upstream call that invocation i issued last has failed
LastCallFailed(i) == Len(calls[i]) > 0 /\ Last(calls[i]).outcome # "returned"

\* C5: when an upstream call failed with a ClientError the result of the
\* invocation is "AWS Error: " plus the message the upstream supplied and the
\* error code does not occur in it; when it failed with another exception the
\* result is "Error: " plus the text of the exception
C5_ErrorClassification ==
    \A i \in Invocations :
        Returned(i) /\ LastCallFailed(i) =>
            /\ exc[i].cls = Last(calls[i]).outcome
            /\ IF Last(calls[i]).outcome = "ClientError"
               THEN LET error == IF "Error" \in DOMAIN exc[i].response
                                 THEN exc[i].response["Error"] ELSE NoResponse
                    IN  /\ StartsWith(ret[i].value, "AWS Error: ")
                        /\ "Message" \in DOMAIN error =>
                              ret[i].value = "AWS Error: " \o error["Message"]
                        /\ "Code" \in DOMAIN error => ~Contains(ret[i].value, error["Code"])
               ELSE ret[i].value = "Error: " \o exc[i].text

\* C5 witness: the get_service call of an invocation failed with a ClientError
\* that carries a code and a message, and the invocation has returned
C5_Witness ==
    \E i \in Invocations :
        /\ Returned(i)
        /\ Len(calls[i]) = 2
        /\ calls[i][2].outcome = "ClientError"
        /\ "Error" \in DOMAIN exc[i].response
        /\ DOMAIN exc[i].response["Error"] = {"Code", "Message"}

\* C6: an invocation cancelled at an await returns a string that starts with
\* "Error: "; the cancellation does not leave it as an exception
C6_CancellationReturned ==
    \A i \in Invocations :
        Done(i) /\ exc[i].cls = "CancelledError" =>
            Returned(i) /\ StartsWith(ret[i].value, "Error: ")

\* C7: in get_service_detail a failed list_services call is the only call of
\* the invocation, and a failed get_service call is reported as "AWS Error: ..."
\* or "Error: ...", never as the not-found or the no-details message
C7_FailuresShortCircuit ==
    \A i \in Invocations :
        IsGet(i) =>
            /\ Len(calls[i]) > 0 /\ calls[i][1].outcome # "returned" => Len(calls[i]) = 1
            /\ Returned(i) /\ Len(calls[i]) = 2 /\ calls[i][2].outcome # "returned" =>
                  /\ \/ StartsWith(ret[i].value, "AWS Error: ")
                     \/ StartsWith(ret[i].value, "Error: ")
                  /\ ret[i].value # "Service '" \o args[i].service_name
                                       \o "' not found in Application Signals."
                  /\ ret[i].value # "No service details found for '"
                                       \o args[i].service_name \o "'."

\* C7 witness: an invocation has returned after its get_service call raised an
\* exception that is no ClientError
C7_Witness ==
    \E i \in Invocations :
        /\ IsGet(i)
        /\ Returned(i)
        /\ Len(calls[i]) = 2
        /\ calls[i][2].outcome = "EndpointConnectionError"

\* C8: no call is retried: list_monitored_services issues at most one
\* list_services call and nothing else, get_service_detail at most one call of
\* each kind, and a call that failed is the last call of its invocation, which
\* is then in an except clause or ended
C8_NoRetry ==
    \A i \in Invocations :
        /\ IsList(i) => Len(calls[i]) <= 1 /\ CallsOf(i, "get_service") = {}
        /\ IsGet(i) => /\ Cardinality(CallsOf(i, "list_services")) <= 1
                       /\ Cardinality(CallsOf(i, "get_service")) <= 1
        /\ \A k \in 1..Len(calls[i]) : calls[i][k].outcome # "returned" => k = Len(calls[i])
        /\ LastCallFailed(i) => pc[i] \in HandlerAwaits \cup {"done"}

\* C8 witness: a list_monitored_services invocation has returned after its one
\* list_services call failed
C8_Witness ==
    \E i \in Invocations :
        /\ IsList(i)
        /\ Returned(i)
        /\ Len(calls[i]) = 1
        /\ calls[i][1].outcome # "returned"

\* The key attributes w, as sent, with their null fields dropped
WireSetKeys(w) == {a \in DOMAIN w : w[a] # None}

\* C9: the KeyAttributes argument of get_service is the key attributes of the
\* first summary, in list order, whose Name equals service_name exactly: every
\* field that is set, none that is unset, under the capitalized wire names
C9_FirstExactMatch ==
    \A i \in Invocations :
        \A c \in CallsOf(i, "get_service") :
            LET ss == WireSummaries(listResp[i][1])
                key == calls[i][c].KeyAttributes
            IN  \E k \in 1..Len(ss) :
                    /\ WireNamed(ss[k], args[i].service_name)
                    /\ \A j \in 1..(k - 1) : ~WireNamed(ss[j], args[i].service_name)
                    /\ DOMAIN key = WireSetKeys(ss[k]["KeyAttributes"][1])
                    /\ DOMAIN key \subseteq {"Type", "ResourceType", "Name", "Identifier", "Environment"}
                    /\ \A a \in DOMAIN key : key[a] = ss[k]["KeyAttributes"][1][a][1]

\* C9 witness: get_service was issued after a list result with two summaries of
\* the requested name and different key attributes, the first with a null field
C9_Witness ==
    \E i \in Invocations :
        /\ CallsOf(i, "get_service") # {}
        /\ LET ss == WireSummaries(listResp[i][1])
           IN  /\ Len(ss) = 2
               /\ WireNamed(ss[1], args[i].service_name)
               /\ WireNamed(ss[2], args[i].service_name)
               /\ ss[1]["KeyAttributes"] # ss[2]["KeyAttributes"]
               /\ WireSetKeys(ss[1]["KeyAttributes"][1]) # DOMAIN ss[1]["KeyAttributes"][1]

\* C10: a get_service_detail invocation with the empty string as service_name
\* issues no upstream call and returns a string that starts with
\* "Invalid parameters: "
C10_EmptyServiceNameRejected ==
    \A i \in Invocations :
        IsGet(i) /\ args[i].service_name = "" =>
            /\ calls[i] = << >>
            /\ Done(i) => Returned(i) /\ StartsWith(ret[i].value, "Invalid parameters: ")

\* The bound a value violates, in the words of the validation error
BoundText(v, lo, hi) ==
    IF v < lo THEN "greater than or equal to " \o ToString(lo)
    ELSE "less than or equal to " \o ToString(hi)

\* C11: whenever list_monitored_services builds its ListServicesParams, a
\* max_results in 1..500 is accepted and reaches the upstream call unchanged,
\* and a max_results below 1 or above 500 is rejected with a validation error
\* whose message names the violated bound
C11_MaxResultsRange ==
    \A i \in Invocations :
        IsList(i) /\ pc[i] \notin {"idle", "info57", "debug58"} /\ exc[i].cls # "OverflowError" =>
            IF args[i].max_results >= 1 /\ args[i].max_results <= 500
            THEN /\ Len(calls[i]) = 1
                 /\ calls[i][1].MaxResults = args[i].max_results
            ELSE /\ calls[i] = << >>
                 /\ exc[i].cls = "ValidationError"
                 /\ Contains(exc[i].text, BoundText(args[i].max_results, 1, 500))
                 /\ Returned(i) => Contains(ret[i].value, BoundText(args[i].max_results, 1, 500))

\* C11 witness: an invocation with max_results = 501 has returned the
\* validation error that names the upper bound
C11_Witness ==
    \E i \in Invocations :
        /\ IsList(i)
        /\ Returned(i)
        /\ args[i].max_results = 501
        /\ Contains(ret[i].value, "less than or equal to 500")

\* C12: a get_service_detail invocation with hours_back in 1..168 passes
\* validation and goes on to the upstream list call; with hours_back outside
\* it issues no call and returns a string that starts with "Invalid parameters"
\* and names the violated bound
C12_HoursBackRange ==
    \A i \in Invocations :
        IsGet(i) /\ pc[i] \notin {"idle", "info162"} =>
            IF args[i].hours_back >= 1 /\ args[i].hours_back <= 168
            THEN \/ pc[i] = "debug169" /\ calls[i] = << >>
                 \/ Len(calls[i]) >= 1 /\ calls[i][1].api = "list_services"
            ELSE /\ calls[i] = << >>
                 /\ exc[i].cls = "ValidationError"
                 /\ Done(i) =>
                       /\ Returned(i)
                       /\ StartsWith(ret[i].value, "Invalid parameters")
                       /\ Contains(ret[i].value, BoundText(args[i].hours_back, 1, 168))

\* C12 witness: an invocation with hours_back = 200 has returned the
\* validation error that names the upper bound
C12_Witness ==
    \E i \in Invocations :
        /\ IsGet(i)
        /\ Returned(i)
        /\ args[i].hours_back = 200
        /\ Contains(ret[i].value, "less than or equal to 168")

EndsWith(str, suffix) ==
    Len(str) >= Len(suffix) /\ SubSeq(str, Len(str) - Len(suffix) + 1, Len(str)) = suffix

\* The positions at which part occurs in str
Occurrences(str, part) ==
    {k \in 1..(Len(str) - Len(part) + 1) : SubSeq(str, k, k + Len(part) - 1) = part}

\* The value of key k of a wire dict, none when the key is absent or null
WireField(d, k) == IF k \in DOMAIN d THEN d[k] ELSE << >>

\* The continuation token of a list payload as sent, none when it is absent,
\* null or empty
WireToken(raw) ==
    IF WireField(raw, "NextToken") # << >> /\ WireField(raw, "NextToken")[1] # ""
    THEN WireField(raw, "NextToken") ELSE << >>

\* Invocation i of list_monitored_services has returned after a list result
\* that parses into the typed records
ListedAndReturned(i) ==
    /\ IsList(i)
    /\ Returned(i)
    /\ listResp[i] # << >>
    /\ ListServicesResponseOK(listResp[i][1])

\* C13: when the list result carries a continuation token the returned text
\* ends with "Note: More services available (NextToken: ", the first 20
\* characters of the token and " ...)"; without a token there is no such note
C13_TruncationNotice ==
    \A i \in Invocations :
        ListedAndReturned(i) =>
            LET token == WireToken(listResp[i][1])
            IN  IF token # << >>
                THEN EndsWith(ret[i].value,
                              "Note: More services available (NextToken: "
                                  \o SubSeq(token[1], 1, IF Len(token[1]) < 20 THEN Len(token[1]) ELSE 20)
                                  \o " ...)\n")
                ELSE ~Contains(ret[i].value, "Note: More services available")

\* C14: a list result with no summaries (an empty, null or absent sequence)
\* is answered with exactly "No services found in Application Signals.", and
\* a list result with summaries is never answered with that string
C14_EmptySentinel ==
    \A i \in Invocations :
        IsList(i) /\ Returned(i) /\ listResp[i] # << >> =>
            IF Len(WireSummaries(listResp[i][1])) = 0
            THEN ret[i].value = "No services found in Application Signals."
            ELSE ret[i].value # "No services found in Application Signals."

\* C14 witness: an invocation has returned after a list result whose
\* ServiceSummaries is present and empty
C14_Witness ==
    \E i \in Invocations :
        /\ IsList(i)
        /\ Returned(i)
        /\ listResp[i] # << >>
        /\ WireField(listResp[i][1], "ServiceSummaries") = << << >> >>

\* The first position at which part occurs in str, 0 when it does not occur
IndexOf(str, part) ==
    IF Occurrences(str, part) = {} THEN 0
    ELSE CHOOSE k \in Occurrences(str, part) : \A j \in Occurrences(str, part) : k <= j

\* str from position k on
From(str, k) == IF k > Len(str) THEN "" ELSE SubSeq(str, k, Len(str))

RECURSIVE SplitBlocks(_)
\* The text cut after each blank line: every piece but the last ends with the
\* blank line that closes a block
SplitBlocks(str) ==
    IF str = "" THEN << >>
    ELSE IF IndexOf(str, "\n\n") = 0 THEN << str >>
    ELSE << SubSeq(str, 1, IndexOf(str, "\n\n") + 1) >>
             \o SplitBlocks(From(str, IndexOf(str, "\n\n") + 2))

\* The value of the key attribute k of a summary as sent, or "Unknown"
WireOrUnknown(ka, k) ==
    IF WireField(ka, k) = << >> \/ WireField(ka, k) = << "" >> THEN "Unknown" ELSE WireField(ka, k)[1]

\* The optional line `label: value` is in the block when the key attribute k is
\* set and is not when k is absent or null
OptionalLine(block, label, ka, k) ==
    IF WireField(ka, k) = << >>
    THEN ~Contains(block, label)
    ELSE WireField(ka, k) # << "" >> => Contains(block, "\n  " \o label \o WireField(ka, k)[1] \o "\n")

\* The block rendered for the summary s, as sent
BlockRenders(block, s) ==
    IF WireField(s, "KeyAttributes") = << >>
    THEN block = "Service: Unknown (no attributes)\n\n"
    ELSE LET ka == WireField(s, "KeyAttributes")[1]
         IN  /\ StartsWith(block, "Service: " \o WireOrUnknown(ka, "Name") \o "\n"
                                \o "   Type: " \o WireOrUnknown(ka, "Type") \o "\n")
             /\ OptionalLine(block, "Environment: ", ka, "Environment")
             /\ OptionalLine(block, "Resource Type: ", ka, "ResourceType")

\* C15: the report of a list result with n >= 1 summaries starts with
\* "Application Signals Services (n total):" and has one block per summary in
\* the upstream order; a summary without key attributes gives only the line
\* "Service: Unknown (no attributes)", one with key attributes gives its name
\* and type, "Unknown" for an absent one, and the Environment and Resource Type
\* lines exactly for the fields that are set
C15_ListReport ==
    \A i \in Invocations :
        ListedAndReturned(i) /\ Len(WireSummaries(listResp[i][1])) > 0 =>
            LET ss == WireSummaries(listResp[i][1])
                header == "Application Signals Services (" \o ToString(Len(ss)) \o " total):\n\n"
                blocks == SplitBlocks(From(ret[i].value, Len(header) + 1))
            IN  /\ StartsWith(ret[i].value, header)
                /\ Len(blocks) \in {Len(ss), Len(ss) + 1}
                /\ Len(blocks) = Len(ss) + 1 => StartsWith(blocks[Len(blocks)], "Note: ")
                /\ \A k \in 1..Len(ss) : BlockRenders(blocks[k], ss[k])

\* C15 witness: a report of two summaries has been returned, the first
\* without key attributes but with attribute maps and metric references, the
\* second with key attributes that carry a Name and no Type
C15_Witness ==
    \E i \in Invocations :
        /\ ListedAndReturned(i)
        /\ LET ss == WireSummaries(listResp[i][1])
           IN  /\ Len(ss) = 2
               /\ WireField(ss[1], "KeyAttributes") = << >>
               /\ WireField(ss[1], "AttributeMaps") # << >>
               /\ WireField(ss[2], "KeyAttributes") # << >>
               /\ WireField(WireField(ss[2], "KeyAttributes")[1], "Name") = << "svc" >>
               /\ WireField(WireField(ss[2], "KeyAttributes")[1], "Type") = << >>
        /\ Contains(ret[i].value, "Service: svc\n   Type: Unknown\n")

\* The number of entries of the list under key k of a wire dict, 0 when the
\* key is absent or null
WireCount(d, k) == IF WireField(d, k) = << >> THEN 0 ELSE Len(WireField(d, k)[1])

\* The section `title (n total):` of a detail report: present once, with n
\* bullet entries in its part of the text, when n >= 1, and absent when n = 0
SectionRenders(report, part, title, n) ==
    IF n >= 1
    THEN /\ Cardinality(Occurrences(report, title \o " (" \o ToString(n) \o " total):\n")) = 1
         /\ Cardinality(Occurrences(report, title)) = 1
         /\ Cardinality(Occurrences(part, "\n  * ")) = n
    ELSE /\ ~Contains(report, title)
         /\ ~Contains(part, "\n  * ")

\* Invocation i of get_service_detail has returned after a get_service result
\* that parses and carries a service
DetailedAndReturned(i) ==
    /\ IsGet(i)
    /\ Returned(i)
    /\ detailResp[i] # << >>
    /\ GetServiceResponseOK(detailResp[i][1])
    /\ WireField(detailResp[i][1], "Service") # << >>

\* C16: the detail report has the header "Metric References (N total):"
\* exactly when the service has N >= 1 metric references and "Log Group
\* References (N total):" exactly when it has N >= 1 log group references, each
\* followed by N bullet entries; an empty or absent sequence gives no header
C16_ReferenceSections ==
    \A i \in Invocations :
        DetailedAndReturned(i) =>
            LET service == WireField(detailResp[i][1], "Service")[1]
                report == ret[i].value
                logAt == IndexOf(report, "Log Group References")
                metricPart == IF logAt = 0 THEN report ELSE SubSeq(report, 1, logAt - 1)
                logPart == IF logAt = 0 THEN "" ELSE From(report, logAt)
            IN  /\ SectionRenders(report, metricPart, "Metric References",
                                  WireCount(service, "MetricReferences"))
                /\ SectionRenders(report, logPart, "Log Group References",
                                  WireCount(service, "LogGroupReferences"))
                /\ ~Contains(report, "(0 total)")

\* C16 witness: a report has been returned for a service whose
\* MetricReferences is present and empty and which has two log group references
C16_Witness ==
    \E i \in Invocations :
        /\ DetailedAndReturned(i)
        /\ WireField(WireField(detailResp[i][1], "Service")[1], "MetricReferences") = << << >> >>
        /\ WireCount(WireField(detailResp[i][1], "Service")[1], "LogGroupReferences") = 2
        /\ Contains(ret[i].value, "Log Group References (2 total):")

\* C17: every upstream call of an invocation with hours_back = h gets as
\* EndTime the current UTC time of the invocation and as StartTime that time
\* minus h hours, both aware of their UTC offset, and the get_service call gets
\* the same StartTime and EndTime as the list_services call before it
C17_TimeWindow ==
    \A i \in Invocations :
        \A k \in 1..Len(calls[i]) :
            /\ calls[i][k].EndTime.hours \in NowValues
            /\ calls[i][k].EndTime = window[i].end_time
            /\ calls[i][k].StartTime.hours = calls[i][k].EndTime.hours - args[i].hours_back
            /\ calls[i][k].StartTime.tzinfo = "UTC"
            /\ calls[i][k].EndTime.tzinfo = "UTC"
            /\ calls[i][k].StartTime = calls[i][1].StartTime
            /\ calls[i][k].EndTime = calls[i][1].EndTime

\* C17 witness: a get_service_detail invocation with hours_back = 168 has
\* issued both of its calls
C17_Witness ==
    \E i \in Invocations :
        /\ IsGet(i)
        /\ args[i].hours_back = 168
        /\ Len(calls[i]) = 2
        /\ calls[i][2].api = "get_service"
        /\ calls[i][2].StartTime.hours = calls[i][1].EndTime.hours - 168

C19_NoNullLiteral ==
    \A i \in Invocations :
        Returned(i) => ~Contains(ret[i].value, "None") /\ ~Contains(ret[i].value, "null")

\* The payload of the last upstream call of invocation i does not parse into
\* the typed records
PayloadUnparseable(i) ==
    \/ /\ detailResp[i] # << >>
       /\ ~GetServiceResponseOK(detailResp[i][1])
    \/ /\ detailResp[i] = << >>
       /\ listResp[i] # << >>
       /\ ~ListServicesResponseOK(listResp[i][1])

\* C20: an invocation that returns a string starting with
\* "Invalid parameters: " has issued no upstream call, and an upstream payload
\* that does not parse is not reported with that prefix
C20_InvalidParametersIsLocal ==
    \A i \in Invocations :
        Returned(i) =>
            /\ StartsWith(ret[i].value, "Invalid parameters: ") => calls[i] = << >>
            /\ PayloadUnparseable(i) => ~StartsWith(ret[i].value, "Invalid parameters: ")

\* C21: every upstream call has a StartTime strictly earlier than its EndTime,
\* whatever hours_back the caller supplied
C21_WindowNotInverted ==
    \A i \in Invocations :
        \A k \in 1..Len(calls[i]) :
            calls[i][k].StartTime.hours < calls[i][k].EndTime.hours

\* The answers invocation i got to its upstream calls, in order: the outcome,
\* the payload when the call returned, the exception when it raised
AnswersOf(i) ==
    [k \in 1..Len(calls[i]) |->
        [outcome |-> calls[i][k].outcome,
         raw |-> IF calls[i][k].api = "list_services" THEN listResp[i] ELSE detailResp[i],
         error |-> exc[i]]]

\* An upstream call expected of a run that got no answer to it
Unanswered == << "unanswered" >>

PayloadErrorText(model) ==
    "Invalid parameters: " \o ValidationErrorText(model, << "Value\n  Field required" >>)

\* list_monitored_services run alone from start to end with the arguments a,
\* the clock reading clock and the upstream answers: its calls and its result
SoloList(a, clock, answers) ==
    LET w == Window(clock, a.hours_back)
        errs == ListServicesParamsErrors(a.max_results)
    IN  IF ~DateInRange(w.start_time)
        THEN [calls |-> << >>, value |-> "Error: date value out of range"]
        ELSE IF Len(errs) > 0
        THEN [calls |-> << >>,
              value |-> "Invalid parameters: " \o ValidationErrorText("ListServicesParams", errs)]
        ELSE IF Len(answers) = 0 THEN [calls |-> Unanswered, value |-> ""]
        ELSE LET call == ListServicesCall(w, a.max_results, answers[1].outcome)
             IN  IF answers[1].outcome # "returned"
                 THEN [calls |-> << call >>, value |-> HandlerResult(answers[1].error)]
                 ELSE IF ~ListServicesResponseOK(answers[1].raw[1])
                 THEN [calls |-> << call >>, value |-> PayloadErrorText("ListServicesResponse")]
                 ELSE LET response == ParseListServicesResponse(answers[1].raw[1])
                      IN  [calls |-> << call >>,
                           value |-> IF ~TruthyList(response.service_summaries)
                                     THEN NoServicesMessage
                                     ELSE ListReport(response)
                                          \o (IF Truthy(response.next_token)
                                              THEN NextTokenNote(Val(response.next_token))
                                              ELSE "")]

\* The second half of get_service_detail run alone: the get_service call for
\* the summary t and what follows it
SoloDetail(a, w, first, t, answers) ==
    IF Len(answers) < 2 THEN [calls |-> Unanswered, value |-> ""]
    ELSE LET call == GetServiceCall(w, DumpKeyAttributes(Val(Val(t).key_attributes)),
                                    answers[2].outcome)
         IN  [calls |-> << first, call >>,
              value |-> IF answers[2].outcome # "returned"
                        THEN HandlerResult(answers[2].error)
                        ELSE IF ~GetServiceResponseOK(answers[2].raw[1])
                        THEN PayloadErrorText("GetServiceResponse")
                        ELSE IF ~IsSet(ParseGetServiceResponse(answers[2].raw[1]).service)
                        THEN NoDetailsMessage(a.service_name)
                        ELSE DetailReport(a.service_name,
                                          Val(ParseGetServiceResponse(answers[2].raw[1]).service))]

\* get_service_detail run alone from start to end
SoloGet(a, clock, answers) ==
    LET w == Window(clock, a.hours_back)
        errs == GetServiceParamsErrors(a.service_name, a.hours_back)
    IN  IF Len(errs) > 0
        THEN [calls |-> << >>,
              value |-> "Invalid parameters: " \o ValidationErrorText("GetServiceParams", errs)]
        ELSE IF ~DateInRange(w.start_time)
        THEN [calls |-> << >>, value |-> "Error: date value out of range"]
        ELSE IF Len(answers) = 0 THEN [calls |-> Unanswered, value |-> ""]
        ELSE LET first == ListServicesCall(w, DetailListCap, answers[1].outcome)
             IN  IF answers[1].outcome # "returned"
                 THEN [calls |-> << first >>, value |-> HandlerResult(answers[1].error)]
                 ELSE IF ~ListServicesResponseOK(answers[1].raw[1])
                 THEN [calls |-> << first >>, value |-> PayloadErrorText("ListServicesResponse")]
                 ELSE LET t == FindTarget(ParseListServicesResponse(answers[1].raw[1]),
                                          a.service_name)
                      IN  IF NotFound(t)
                          THEN [calls |-> << first >>, value |-> NotFoundMessage(a.service_name)]
                          ELSE SoloDetail(a, w, first, t, answers)

\* What invocation i would have done had it run alone with its arguments, its
\* clock reading and the answers it got
Solo(i) ==
    IF IsList(i)
    THEN SoloList(args[i], window[i].end_time.hours, AnswersOf(i))
    ELSE SoloGet(args[i], window[i].end_time.hours, AnswersOf(i))

\* C22: with two invocations interleaved at their awaits in any order, each
\* invocation that has ended has issued the upstream calls and returned the
\* string it would have issued and returned had it run alone with the same
\* arguments and the same upstream answers
C22_InvocationsIsolated ==
    \A i \in Invocations :
        Done(i) =>
            /\ Returned(i)
            /\ calls[i] = Solo(i).calls
            /\ ret[i].value = Solo(i).value

\* C22 witness: a list_monitored_services invocation and a get_service_detail
\* invocation, started at different clock readings, have both ended, the first
\* with a truncated report and the second with a detail report after two calls
C22_Witness ==
    /\ Cardinality(Invocations) = 2
    /\ \E i, j \in Invocations :
          /\ IsList(i) /\ IsGet(j)
          /\ Done(i) /\ Done(j)
          /\ window[i].end_time # window[j].end_time
          /\ Contains(ret[i].value, "Note: More services available")
          /\ Len(calls[j]) = 2
          /\ StartsWith(ret[j].value, "Service Details: ")

====
